---- MODULE Spec2Model ----
(***************************************************************************)
(* Model of the quarto-chinese filters, centred on                         *)
(* _extensions/sort-citations/sort-citations.py: the bibliography loader,  *)
(* the sort-key builder and the cluster reorderer.  The bibliography       *)
(* sorter _extensions/sort-bib.py and the footnote renaming of             *)
(* _extensions/format-md.py are modelled after it.                         *)
(*                                                                         *)
(* Text is a sequence of Unicode code points, so that Python's string      *)
(* comparison (code point by code point) and the conversions normalize()   *)
(* and to_pinyin() are computed rather than assumed.  Inline elements and  *)
(* Citation objects carry an identity (obj), as Python objects do.         *)
(***************************************************************************)
EXTENDS Integers, Sequences, FiniteSets, TLC

VARIABLES pc, files, cited_ids, bibliography, sort_info, error,
          citations, input, runs, returned,
          entry, year,
          doc, pos, building, acted,
          name, romanized,
          bdoc, bdoc_in, chinese_entries, non_chinese_entries, visited,
          markdown, markdown_in

\* the state of prepare(): the bibliography paths of the metadata,
\* doc._cited_ids, the mapping load_entries returned, doc._sort_info and the
\* exception that ended the run ("none" while there is none)
loadVars == <<files, cited_ids, bibliography, sort_info, error>>
\* one Cite element under action(): its citations now, its citations before
\* the last call, the number of calls and what the last call returned
citeVars == <<citations, input, runs, returned>>
\* extract_year on its own: the record and the year returned
yearVars == <<entry, year>>
\* the filter run over a document: its nodes, the number of nodes the
\* gather walk has visited, the local sort_info of prepare() and the number
\* of nodes the action walk has visited
docVars == <<doc, pos, building, acted>>

\* to_pinyin on its own: the text and the string returned
pinyinVars == <<name, romanized>>

\* the sort-bib filter: the blocks of the document, the blocks it had when
\* the filter started, doc.chinese_entries, doc.non_chinese_entries and the
\* number of top-level blocks the action walk has visited
bibVars == <<bdoc, bdoc_in, chinese_entries, non_chinese_entries, visited>>

\* format-md.py: the footnote markers of the text now and when
\* randomize_numeric_footnotes was called
footVars == <<markdown, markdown_in>>

\* the variables of the state machines other than the cluster, the loader,
\* extract_year and the document run
restVars == <<pinyinVars, bibVars, footVars>>

vars == <<pc, loadVars, citeVars, yearVars, docVars, restVars>>

(***************************************************************************)
(* Bounds of the model.                                                    *)
(***************************************************************************)
\* longest citation cluster explored
MaxLen == 2
\* longest list of bibliography paths handed to load_entries on its own
MaxFiles == 3
\* largest number of nodes of a document the filter runs over
MaxNodes == 3
\* longest text handed to to_pinyin on its own
MaxName == 3
\* largest number of top-level blocks of a document given to sort-bib
MaxBlocks == 2
\* largest number of footnote markers of a text
MaxMarkers == 3
\* number of times action() is applied to the same cluster
MaxRuns == 2

(***************************************************************************)
(* Generic helpers on sequences.                                           *)
(***************************************************************************)
Range(s) == {s[i] : i \in 1..Len(s)}

RECURSIVE Flatten(_)
Flatten(ss) == IF ss = <<>> THEN <<>> ELSE Head(ss) \o Flatten(Tail(ss))

\* Python's str < str: code point order, a proper prefix is smaller.
RECURSIVE StrLess(_, _)
StrLess(a, b) ==
    IF b = <<>> THEN FALSE
    ELSE IF a = <<>> THEN TRUE
    ELSE IF Head(a) # Head(b) THEN Head(a) < Head(b)
    ELSE StrLess(Tail(a), Tail(b))

(***************************************************************************)
(* Character classes (unicodedata / re), on the code points of the model.  *)
(***************************************************************************)
\* re \s on str patterns
IsSpace(c) == c \in {9, 10, 11, 12, 13, 32}
\* unicodedata.combining(ch) # 0 (combining diacritical marks block)
Combining(c) == c \in 768..879
\* unicodedata.normalize("NFKD", ch) for one character
Decompose(c) ==
    CASE c = 233 -> <<101, 769>>     \* e-acute -> e + combining acute
      [] c = 201 -> <<69, 769>>      \* E-acute -> E + combining acute
      [] OTHER   -> <<c>>
\* str.lower() for one character
Lower(c) == IF c \in 65..90 THEN c + 32 ELSE c
\* str.isdigit() for one character
IsDigit(c) == c \in 48..57

\* re.sub(r"\s+", " ", s)
RECURSIVE CollapseSpaces(_)
CollapseSpaces(s) ==
    IF s = <<>> THEN <<>>
    ELSE IF IsSpace(Head(s))
         THEN IF Tail(s) # <<>> /\ IsSpace(Head(Tail(s)))
              THEN CollapseSpaces(Tail(s))
              ELSE <<32>> \o CollapseSpaces(Tail(s))
         ELSE <<Head(s)>> \o CollapseSpaces(Tail(s))

RECURSIVE LStrip(_)
LStrip(s) == IF s # <<>> /\ IsSpace(Head(s)) THEN LStrip(Tail(s)) ELSE s

RECURSIVE RStrip(_)
RStrip(s) ==
    IF s # <<>> /\ IsSpace(s[Len(s)]) THEN RStrip(SubSeq(s, 1, Len(s) - 1)) ELSE s

\* str.strip()
Strip(s) == RStrip(LStrip(s))

(***************************************************************************)
(* contains_chinese, normalize, to_pinyin                                  *)
(***************************************************************************)
IsChineseChar(c) == 19968 <= c /\ c <= 40959      \* "一" <= char <= "鿿"

contains_chinese(text) == \E i \in 1..Len(text) : IsChineseChar(text[i])

normalize(text) ==
    IF text = <<>> THEN <<>>
    ELSE LET normalized    == Flatten([i \in 1..Len(text) |-> Decompose(text[i])])
             NotMark(c)    == ~Combining(c)
             without_marks == SelectSeq(normalized, NotMark)
             stripped      == Strip(CollapseSpaces(without_marks))
         IN  [i \in 1..Len(stripped) |-> Lower(stripped[i])]

\* SURNAME_MAP: surname character -> reading as a surname (TONE3)
SURNAME_MAP ==
    (33883 :> <<103, 101, 51>>)              \* ge3
 @@ (38426 :> <<107, 97, 110, 52>>)          \* kan4
 @@ (21306 :> <<111, 117, 49>>)              \* ou1
 @@ (26420 :> <<112, 105, 97, 111, 50>>)     \* piao2
 @@ (35203 :> <<113, 105, 110, 50>>)         \* qin2
 @@ (20167 :> <<113, 105, 117, 50>>)         \* qiu2
 @@ (20219 :> <<114, 101, 110, 50>>)         \* ren2
 @@ (21333 :> <<115, 104, 97, 110, 52>>)     \* shan4
 @@ (35299 :> <<120, 105, 101, 52>>)         \* xie4
 @@ (29141 :> <<121, 97, 110, 49>>)          \* yan1
 @@ (23561 :> <<121, 117, 52>>)              \* yu4
 @@ (20048 :> <<121, 117, 101, 52>>)         \* yue4
 @@ (26366 :> <<122, 101, 110, 103, 49>>)    \* zeng1
 @@ (26597 :> <<122, 104, 97, 49>>)          \* zha1

\* pypinyin.pinyin(ch, style=Style.TONE3, errors="ignore", strict=False) for
\* one character: its default reading, nothing for a character without one.
PinyinOf(c) ==
    CASE c = 24352 -> <<122, 104, 97, 110, 103, 49>>   \* 张 zhang1
      [] c = 26446 -> <<108, 105, 51>>                 \* 李 li3
      [] c = 21333 -> <<100, 97, 110, 49>>             \* 单 dan1
      [] c = 23561 -> <<119, 101, 105, 52>>            \* 尉 wei4
      [] c = 36831 -> <<99, 104, 105, 50>>             \* 迟 chi2
      [] c = 20110 -> <<121, 117, 50>>                 \* 于 yu2
      [] OTHER     -> <<>>

\* pypinyin reads a run of characters that is a word of its phrase table as
\* the table says: 单于 is chan2 yu2 and 尉迟 is yu4 chi2
PHRASES ==
    (<<21333, 20110>> :> <<<<99, 104, 97, 110, 50>>, <<121, 117, 50>>>>)
 @@ (<<23561, 36831>> :> <<<<121, 117, 52>>, <<99, 104, 105, 50>>>>)

\* pypinyin.pinyin(text, style=Style.TONE3, errors="ignore", strict=False):
\* the list of syllables, phrase by phrase, then character by character
RECURSIVE pinyin(_)
pinyin(text) ==
    IF text = <<>> THEN <<>>
    ELSE IF Len(text) >= 2 /\ SubSeq(text, 1, 2) \in DOMAIN PHRASES
         THEN PHRASES[SubSeq(text, 1, 2)] \o pinyin(SubSeq(text, 3, Len(text)))
         ELSE (IF PinyinOf(text[1]) = <<>> THEN <<>> ELSE <<PinyinOf(text[1])>>)
              \o pinyin(Tail(text))

to_pinyin(text) ==
    IF text = <<>> THEN <<>>
    ELSE LET syllables == pinyin(text)
             joined    == Flatten(syllables)
         IN  IF joined = <<>> THEN normalize(text)
             ELSE LET surname == text[1]
                  IN  IF surname \in DOMAIN SURNAME_MAP
                      THEN LET override == SURNAME_MAP[surname]
                               original == pinyin(<<surname>>)
                           IN  IF original # <<>>
                               THEN override \o SubSeq(joined, Len(original[1]) + 1, Len(joined))
                               ELSE joined
                      ELSE joined

(***************************************************************************)
(* JSON values of a CSL record, tagged by their Python type.               *)
(***************************************************************************)
JNone        == [t |-> "none"]
JInt(n)      == [t |-> "int", v |-> n]
JStr(s)      == [t |-> "str", v |-> s]
JList(l)     == [t |-> "list", v |-> l]
\* a date object: its "date-parts" and "literal" members (JNone when absent)
JDate(dp, l) == [t |-> "dict", dp |-> dp, lit |-> l]

\* Python truth value of a JSON value
Truthy(x) ==
    CASE x.t = "none" -> FALSE
      [] x.t = "int"  -> x.v # 0
      [] x.t = "str"  -> x.v # <<>>
      [] x.t = "list" -> x.v # <<>>
      [] OTHER        -> TRUE

\* int(s) for a string of decimal digits
RECURSIVE ToInt(_)
ToInt(s) == IF s = <<>> THEN 0 ELSE 10 * ToInt(SubSeq(s, 1, Len(s) - 1)) + (s[Len(s)] - 48)

\* str.isdigit()
isdigit(s) == s # <<>> /\ \A i \in 1..Len(s) : IsDigit(s[i])

\* re.search(r"(\d{4})", s): the first run of four digits, JNone without one
search_year(s) ==
    LET starts == {i \in 1..(Len(s) - 3) : \A k \in 0..3 : IsDigit(s[i + k])}
    IN  IF starts = {} THEN JNone
        ELSE LET i == CHOOSE j \in starts : \A k \in starts : j <= k
             IN  JInt(ToInt(SubSeq(s, i, i + 3)))

(***************************************************************************)
(* extract_year                                                            *)
(***************************************************************************)
DATE_KEYS == <<"issued", "original-date", "event-date", "year", "date">>

\* the value the code treats as missing
Sentinel == 9999

\* body of from_obj for a mapping, after parts = date-parts or literal
from_parts(parts) ==
    IF parts.t = "list" /\ parts.v # <<>>
    THEN LET head  == parts.v[1]
             first == IF head.t = "list" /\ head.v # <<>> THEN head.v[1] ELSE head
         IN  IF first.t = "int" THEN first
             ELSE IF first.t = "str" /\ isdigit(first.v) THEN JInt(ToInt(first.v))
             ELSE JNone
    ELSE IF parts.t = "str" THEN search_year(parts.v)
    ELSE JNone

from_obj(obj) ==
    IF obj.t = "dict" THEN from_parts(IF Truthy(obj.dp) THEN obj.dp ELSE obj.lit)
    ELSE IF obj.t = "list" /\ obj.v # <<>> THEN from_parts(obj)
    ELSE IF obj.t = "str" THEN search_year(obj.v)
    ELSE JNone

RECURSIVE year_from(_, _)
year_from(e, k) ==
    IF k > Len(DATE_KEYS) THEN Sentinel
    ELSE LET y == from_obj(e.dates[DATE_KEYS[k]])
         IN  IF Truthy(y) THEN y.v ELSE year_from(e, k + 1)

extract_year(e) == year_from(e, 1)

(***************************************************************************)
(* Bibliography records (CSL-JSON) and the sort-key builder.               *)
(* A record is [id, author, editor, title, container, dates]; dates maps   *)
(* each of DATE_KEYS to a JSON value (JNone when the key is absent).       *)
(* A contributor is a mapping {literal, family, given} or a bare string.   *)
(***************************************************************************)
PersonDict(literal, family, given) ==
    [isdict |-> TRUE, literal |-> literal, family |-> family, given |-> given, text |-> <<>>]
PersonStr(text) ==
    [isdict |-> FALSE, literal |-> <<>>, family |-> <<>>, given |-> <<>>, text |-> text]

NoDates == [k \in Range(DATE_KEYS) |-> JNone]

\* the names one contributor adds to the list
person_names(person) ==
    IF person.isdict
    THEN IF person.literal # <<>> THEN <<person.literal>>
         ELSE LET combined == Strip(person.family \o <<32>> \o person.given)
              IN  IF combined # <<>> THEN <<combined>> ELSE <<>>
    ELSE IF person.text # <<>> THEN <<person.text>> ELSE <<>>

people_names(e) ==
    LET contributors == IF e.author # <<>> THEN e.author ELSE e.editor
    IN  Flatten([i \in 1..Len(contributors) |-> person_names(contributors[i])])

detect_chinese(e) ==
    LET fields == <<e.title, e.container>> \o people_names(e)
    IN  \E i \in 1..Len(fields) : fields[i] # <<>> /\ contains_chinese(fields[i])

author_key(e, chinese) ==
    LET names == people_names(e)
    IN  IF names = <<>>
        THEN IF chinese /\ contains_chinese(e.title) THEN to_pinyin(e.title)
             ELSE normalize(e.title)
        ELSE Flatten([i \in 1..Len(names) |->
                 IF chinese /\ contains_chinese(names[i]) THEN to_pinyin(names[i])
                 ELSE normalize(names[i])])

title_key(e, chinese) ==
    IF chinese /\ contains_chinese(e.title) THEN to_pinyin(e.title)
    ELSE normalize(e.title)

(***************************************************************************)
(* load_entries.  A bibliography path is [named, exists, json_ext, parses, *)
(* data]: whether the path is a non-empty string, whether the resolved     *)
(* path exists, ends with ".json", and is read and parsed without OSError  *)
(* or JSONDecodeError; data is the parsed JSON: a list (t = "list"), one   *)
(* record (t = "dict"), null, a number or a string.  The elements of a     *)
(* list are records or other JSON values.  The result is [error, entries]: *)
(* the exception that leaves load_entries, "none" when it returns, and the *)
(* mapping built.                                                          *)
(***************************************************************************)
\* if isinstance(data, dict): data = [data]; then data or []
records_of(data) ==
    CASE data.t = "dict" -> <<data.v>>
      [] data.t = "list" -> data.v
      [] OTHER           -> <<>>

\* a JSON object, which has .get
is_mapping(x) == "id" \in DOMAIN x

\* the first record of an id is kept
Put_keepfirst(entries, id, e) ==
    [k \in DOMAIN entries \cup {id} |-> IF k \in DOMAIN entries THEN entries[k] ELSE e]

\* entries[entry_id] = entry
Put(entries, id, e) == [k \in DOMAIN entries \cup {id} |-> IF k = id THEN e ELSE entries[k]]

\* for entry in data or []: entry.get("id") needs a mapping
RECURSIVE load_records(_, _, _)
load_records(data, keep_ids, entries) ==
    IF data = <<>> THEN [error |-> "none", entries |-> entries]
    ELSE LET e == Head(data)
         IN  IF ~is_mapping(e) THEN [error |-> "AttributeError", entries |-> entries]
             ELSE LET next == IF e.id # <<>> /\ (keep_ids = {} \/ e.id \in keep_ids)
                              THEN Put(entries, e.id, e) ELSE entries
                  IN  load_records(Tail(data), keep_ids, next)

\* the loop over the parsed data: a number other than 0 is not iterable,
\* a string iterates over its characters, which have no .get
load_data(data, keep_ids, entries) ==
    IF data.t = "int" /\ Truthy(data) THEN [error |-> "TypeError", entries |-> entries]
    ELSE IF data.t = "str" /\ Truthy(data)
         THEN [error |-> "AttributeError", entries |-> entries]
    ELSE load_records(records_of(data), keep_ids, entries)

RECURSIVE load_files(_, _, _)
load_files(fs, keep_ids, entries) ==
    IF fs = <<>> THEN [error |-> "none", entries |-> entries]
    ELSE LET f == Head(fs)
         IN  IF ~f.named THEN load_files(Tail(fs), keep_ids, entries)
             ELSE IF ~f.exists \/ ~f.json_ext THEN load_files(Tail(fs), keep_ids, entries)
             ELSE IF ~f.parses THEN load_files(Tail(fs), keep_ids, entries)
             ELSE LET r == load_data(f.data, keep_ids, entries)
                  IN  IF r.error # "none" THEN r
                      ELSE load_files(Tail(fs), keep_ids, r.entries)

load_entries(fs, keep_ids) == load_files(fs, keep_ids, <<>>)

\* gather_citations over the citations of a Cite element
gather_citations(cites) == {cites[i].id : i \in 1..Len(cites)}

\* the mapping prepare() stores in doc._sort_info
build_sort_info(entries) ==
    [key \in DOMAIN entries |->
        LET e       == entries[key]
            chinese == detect_chinese(e)
        IN  <<chinese, author_key(e, chinese), extract_year(e), title_key(e, chinese)>>]

\* the title of a record as JSON: a record whose title is not a string
\* carries the JSON value in title_json, and str(title) in title
title_value(e) == IF "title_json" \in DOMAIN e THEN e.title_json ELSE JStr(e.title)

\* the exception title_key(entry, chinese) raises for a title that is not
\* a string: a falsy one (0, null) passes through `text or ""` and
\* `if not text`; any other is iterated by contains_chinese when the entry
\* is Chinese and handed to unicodedata.normalize when it is not
title_error(e, chinese) ==
    LET title == title_value(e)
    IN  IF title.t = "str" \/ ~Truthy(title) THEN "none"
        ELSE IF chinese THEN "TypeError"   \* 'int' object is not iterable
        ELSE "TypeError"                   \* normalize() argument 2 must be str

\* the exception that leaves the loop of prepare() over the bibliography
build_error(entries) ==
    IF \E key \in DOMAIN entries :
           title_error(entries[key], detect_chinese(entries[key])) # "none"
    THEN "TypeError" ELSE "none"

(***************************************************************************)
(* sort_key, sorted, restore_prefix                                        *)
(***************************************************************************)
\* sort_key without the locale group: every reference in group 0
sort_key_nogroup(info, citation, original_index) ==
    IF citation.id \notin DOMAIN info
    THEN LET fallback == normalize(citation.id)
         IN  <<0, fallback, Sentinel, fallback, original_index>>
    ELSE LET i == info[citation.id]
         IN  <<0, i[2], i[3], i[4], original_index>>

\* sort_key with the tie-break reversed
sort_key_revindex(info, citation, original_index) ==
    IF citation.id \notin DOMAIN info
    THEN LET fallback == normalize(citation.id)
         IN  <<0, fallback, Sentinel, fallback, 0 - original_index>>
    ELSE LET i == info[citation.id]
         IN  <<IF i[1] THEN 1 ELSE 0, i[2], i[3], i[4], 0 - original_index>>

\* sort_key without the tie-break
sort_key_noindex(info, citation, original_index) ==
    IF citation.id \notin DOMAIN info
    THEN LET fallback == normalize(citation.id)
         IN  <<0, fallback, Sentinel, fallback, 0>>
    ELSE LET i == info[citation.id]
         IN  <<IF i[1] THEN 1 ELSE 0, i[2], i[3], i[4], 0>>

\* sort_key whose fallback is the id as written, not normalize(id)
sort_key_rawid(info, citation, original_index) ==
    IF citation.id \notin DOMAIN info
    THEN <<0, citation.id, Sentinel, citation.id, original_index>>
    ELSE LET i == info[citation.id]
         IN  <<IF i[1] THEN 1 ELSE 0, i[2], i[3], i[4], original_index>>

sort_key(info, citation, original_index) ==
    IF citation.id \notin DOMAIN info
    THEN LET fallback == normalize(citation.id)
         IN  <<0, fallback, Sentinel, fallback, original_index>>
    ELSE LET i == info[citation.id]
         IN  <<IF i[1] THEN 1 ELSE 0, i[2], i[3], i[4], original_index>>

\* tuple comparison that skips the year
KeyLess_noyear(a, b) ==
    IF a[1] # b[1] THEN a[1] < b[1]
    ELSE IF a[2] # b[2] THEN StrLess(a[2], b[2])
    ELSE IF a[4] # b[4] THEN StrLess(a[4], b[4])
    ELSE a[5] < b[5]

\* Python's tuple < tuple for (int, str, int, str, int)
KeyLess(a, b) ==
    IF a[1] # b[1] THEN a[1] < b[1]
    ELSE IF a[2] # b[2] THEN StrLess(a[2], b[2])
    ELSE IF a[3] # b[3] THEN a[3] < b[3]
    ELSE IF a[4] # b[4] THEN StrLess(a[4], b[4])
    ELSE a[5] < b[5]

\* sorted(items, key=...) on items decorated with their key, <<key, item>>: a
\* stable sort; an item goes after every item already placed whose key is not
\* greater than its own.
RECURSIVE insert_sorted(_, _)
insert_sorted(done, item) ==
    IF done = <<>> THEN <<item>>
    ELSE IF KeyLess(item[1], Head(done)[1])
         THEN <<item>> \o done
         ELSE <<Head(done)>> \o insert_sorted(Tail(done), item)

RECURSIVE sorted_from(_, _)
sorted_from(done, items) ==
    IF items = <<>> THEN done
    ELSE sorted_from(insert_sorted(done, Head(items)), Tail(items))

sorted(items) == sorted_from(<<>>, items)

restore_prefix(cites, prefix) ==
    IF prefix # <<>> /\ cites # <<>>
    THEN [cites EXCEPT ![1].prefix = prefix \o cites[1].prefix]
    ELSE cites

(***************************************************************************)
(* action(): the cluster reorderer, as a function of the citations of the  *)
(* Cite element and doc._sort_info.  A citation is [obj, id, prefix,       *)
(* suffix]; obj is the identity of the Citation object.  The result is the *)
(* new content of elem.citations and what action() returns.                *)
(***************************************************************************)
\* the prefix is copied but left on the first citation
detach_prefix_keep(cites) == cites

\* elem.citations[0].prefix = pf.ListContainer()
detach_prefix(cites) == [cites EXCEPT ![1].prefix = <<>>]

\* every item carries the first citation
keyed_first(cites, info) ==
    [i \in 1..Len(cites) |-> <<sort_key(info, cites[i], i - 1), <<i - 1, cites[1]>>>>]

\* list(enumerate(elem.citations)) decorated with the key sorted() computes
keyed(cites, info) ==
    [i \in 1..Len(cites) |-> <<sort_key(info, cites[i], i - 1), <<i - 1, cites[i]>>>>]

\* action() that returns early on a short cluster only after detaching the
\* prefix, without restoring it
action_result_early(cites, info) ==
    IF Len(cites) < 1 THEN [citations |-> cites, returned |-> "None"]
    ELSE LET cluster_prefix == IF cites[1].prefix # <<>> THEN cites[1].prefix ELSE <<>>
             detached       == IF cites[1].prefix # <<>> THEN detach_prefix(cites) ELSE cites
             sortable       == keyed(detached, info)
         IN  IF Len(sortable) < 2
             THEN [citations |-> detached, returned |-> "None"]
             ELSE LET sorted_subset == sorted(sortable)
                      rewritten == [t \in 1..Len(detached) |-> sorted_subset[t][2][2]]
                  IN  [citations |-> restore_prefix(rewritten, cluster_prefix),
                       returned  |-> "elem"]

action_result(cites, info) ==
    IF Len(cites) < 2 THEN [citations |-> cites, returned |-> "None"]
    ELSE LET cluster_prefix == IF cites[1].prefix # <<>> THEN cites[1].prefix ELSE <<>>
             detached       == IF cites[1].prefix # <<>> THEN detach_prefix(cites) ELSE cites
             sortable       == keyed(detached, info)
         IN  IF Len(sortable) < 2
             THEN [citations |-> restore_prefix(detached, cluster_prefix), returned |-> "None"]
             ELSE LET sorted_subset == sorted(sortable)
                      \* elem.citations[target_index] = citation
                      rewritten == [t \in 1..Len(detached) |-> sorted_subset[t][2][2]]
                  IN  [citations |-> restore_prefix(rewritten, cluster_prefix),
                       returned  |-> "elem"]

(***************************************************************************)
(* The documents and bibliography explored.                                *)
(***************************************************************************)
\* citation ids "b", "A", "l", "d" and "U"
Ids == {<<98>>, <<65>>, <<108>>, <<100>>, <<85>>}

\* {"id": "b", "author": [{"family": "Sm"}], "title": "T",
\*  "issued": {"date-parts": [[2019, 5]]}}
EntryB ==
    [id |-> <<98>>, author |-> <<PersonDict(<<>>, <<83, 109>>, <<>>)>>, editor |-> <<>>,
     title |-> <<84>>, container |-> <<>>,
     dates |-> [NoDates EXCEPT !["issued"] =
                   JDate(JList(<<JList(<<JInt(2019), JInt(5)>>)>>), JNone)]]

\* {"id": "A", "author": [{"literal": " SM "}], "title": "t", "year": "c2018"}
EntryA ==
    [id |-> <<65>>, author |-> <<PersonDict(<<32, 83, 77, 32>>, <<>>, <<>>)>>, editor |-> <<>>,
     title |-> <<116>>, container |-> <<>>,
     dates |-> [NoDates EXCEPT !["year"] = JStr(<<99, 50, 48, 49, 56>>)]]

\* {"id": "l", "title": "李"}
EntryL ==
    [id |-> <<108>>, author |-> <<>>, editor |-> <<>>,
     title |-> <<26446>>, container |-> <<>>, dates |-> NoDates]

\* {"id": "d", "editor": [{"literal": "单"}], "title": "T", "issued": [[2020]]}
EntryD ==
    [id |-> <<100>>, author |-> <<>>, editor |-> <<PersonDict(<<21333>>, <<>>, <<>>)>>,
     title |-> <<84>>, container |-> <<>>,
     dates |-> [NoDates EXCEPT !["issued"] = JList(<<JList(<<JInt(2020)>>)>>)]]

\* {"id": "b", "author": [{"family": "张"}], "title": "T", "date": "2019"}
EntryB2 ==
    [id |-> <<98>>, author |-> <<PersonDict(<<>>, <<24352>>, <<>>)>>, editor |-> <<>>,
     title |-> <<84>>, container |-> <<>>,
     dates |-> [NoDates EXCEPT !["date"] = JStr(<<50, 48, 49, 57>>)]]

\* a CSL-JSON file that is found and parses to data
JsonFile(data) ==
    [named |-> TRUE, exists |-> TRUE, json_ext |-> TRUE, parses |-> TRUE, data |-> data]

\* refs.json: a list of four records; the id "U" is in no file
MainFile == JsonFile(JList(<<EntryB, EntryA, EntryL, EntryD>>))

\* extra.json: a single record, which redefines the id "b"
SecondFile == JsonFile([t |-> "dict", v |-> EntryB2])

\* the bibliography metadata of the documents explored: none, one file, two
\* files
Bibliographies == {<<>>, <<MainFile>>, <<MainFile, SecondFile>>}

\* an inline element (pf.Str) owned by the citation created at position owner
Str(owner, text) == [obj |-> owner, text |-> text]

\* the citation pandoc hands over at position i of a cluster: its id, and
\* whether it carries a prefix ("see") and a suffix ("p. 23")
Citation(i, id, has_prefix, has_suffix) ==
    [obj |-> i, id |-> id,
     prefix |-> IF has_prefix THEN <<Str(i, "see")>> ELSE <<>>,
     suffix |-> IF has_suffix THEN <<Str(i, "p. 23")>> ELSE <<>>]

\* a cluster of n citations
Cluster(n, ids, pre, suf) == [i \in 1..n |-> Citation(i, ids[i], pre[i], suf[i])]

(***************************************************************************)
(* The filter run: prepare(doc), then action(elem, doc) on the cluster.    *)
(***************************************************************************)
\* the variables of the other state machines, which a run leaves alone
NoLoad == bibliography = <<>> /\ sort_info = <<>> /\ error = "none"
NoCite == citations = <<>> /\ input = <<>> /\ runs = 0 /\ returned = "None"
NoYear == entry = EntryB /\ year = 0
NoDoc  == doc = <<>> /\ pos = 0 /\ building = <<>> /\ acted = 0
NoPinyin == name = <<>> /\ romanized = <<>>
NoBib == bdoc = <<>> /\ bdoc_in = <<>> /\ chinese_entries = <<>> /\ non_chinese_entries = <<>> /\ visited = 0
NoFoot == markdown = <<>> /\ markdown_in = <<>>
NoRest == NoPinyin /\ NoBib /\ NoFoot

Init ==
    /\ pc = "prepare"
    /\ files \in Bibliographies
    /\ cited_ids = {}
    /\ \E n \in 0..MaxLen :
           \E ids \in [1..n -> Ids], pre \in [1..n -> BOOLEAN], suf \in [1..n -> BOOLEAN] :
               citations = Cluster(n, ids, pre, suf)
    /\ input = citations
    /\ runs = 0
    /\ returned = "None"
    /\ NoLoad
    /\ NoYear
    /\ NoDoc
    /\ NoRest

prepare ==
    /\ pc = "prepare"
    /\ cited_ids' = gather_citations(citations)
    /\ LET loaded == load_entries(files, cited_ids')
       IN  IF loaded.error # "none"
           THEN /\ error' = loaded.error
                /\ pc' = "raised"
                /\ UNCHANGED <<bibliography, sort_info>>
           ELSE /\ bibliography' = loaded.entries
                /\ IF build_error(loaded.entries) # "none"
                   THEN /\ error' = build_error(loaded.entries)
                        /\ pc' = "raised"
                        /\ UNCHANGED sort_info
                   ELSE /\ sort_info' = build_sort_info(loaded.entries)
                        /\ pc' = "action"
                        /\ UNCHANGED error
    /\ UNCHANGED <<restVars, files, citeVars, yearVars, docVars>>

action ==
    /\ pc = "action"
    /\ runs < MaxRuns
    /\ LET r == action_result(citations, sort_info)
       IN  /\ citations' = r.citations
           /\ returned' = r.returned
    /\ input' = citations
    /\ runs' = runs + 1
    /\ UNCHANGED <<restVars, pc, loadVars, yearVars, docVars>>

Next == prepare \/ action

Spec == Init /\ [][Next]_vars

(***************************************************************************)
(* load_entries on its own: a list of bibliography paths drawn from        *)
(* FileCatalogue and a set of cited ids, then load_entries is applied.     *)
(***************************************************************************)
\* a path that does not exist
MissingFile == [JsonFile(JNone) EXCEPT !.exists = FALSE]
\* refs.yaml: an existing path that does not end with ".json"
YamlFile == [MainFile EXCEPT !.json_ext = FALSE]
\* an empty path
UnnamedFile == [JsonFile(JNone) EXCEPT !.named = FALSE]
\* a file that cannot be read, or does not hold JSON
BrokenFile == [JsonFile(JNone) EXCEPT !.parses = FALSE]
\* null
NullFile == JsonFile(JNone)
\* 5
NumberFile == JsonFile(JInt(5))
\* "x"
StringFile == JsonFile(JStr(<<120>>))
\* [{"id": "A", ...}, 1]
MixedFile == JsonFile(JList(<<EntryA, JInt(1)>>))

\* the ids that may be cited: "b", "A" and "U"
LoadIds == {<<98>>, <<65>>, <<85>>}

FileCatalogue ==
    {MainFile, SecondFile, MissingFile, YamlFile, UnnamedFile, BrokenFile,
     NullFile, NumberFile, StringFile, MixedFile}

InitLoad ==
    /\ pc = "load_entries"
    /\ \E n \in 0..MaxFiles : files \in [1..n -> FileCatalogue]
    /\ cited_ids \in SUBSET LoadIds
    /\ NoLoad
    /\ NoCite
    /\ NoYear
    /\ NoDoc
    /\ NoRest

LoadEntries ==
    /\ pc = "load_entries"
    /\ LET loaded == load_entries(files, cited_ids)
       IN  /\ error' = loaded.error
           /\ bibliography' = IF loaded.error = "none" THEN loaded.entries ELSE bibliography
    /\ pc' = "loaded"
    /\ UNCHANGED <<restVars, files, cited_ids, sort_info, citeVars, yearVars, docVars>>

NextLoad == LoadEntries

SpecLoad == InitLoad /\ [][NextLoad]_vars

(***************************************************************************)
(* The filter run over a document, step by step: prepare() walks the       *)
(* nodes with gather_citations, loads the bibliography and builds the sort *)
(* information entry by entry; then run_filter walks the nodes with        *)
(* action().  An exception ends the run.                                   *)
(***************************************************************************)
\* a node of the document: a Cite element with its citations, or any other
\* element
Cite(cites) == [cite |-> TRUE, citations |-> cites]
Para == [cite |-> FALSE, citations |-> <<>>]

\* {"id": "n", "title": 1984}: the title is a JSON number
EntryN ==
    [id |-> <<110>>, author |-> <<>>, editor |-> <<>>,
     title |-> <<49, 57, 56, 52>>, title_json |-> JInt(1984),
     container |-> <<>>, dates |-> NoDates]

\* numbers.json: one record, with the id "n"
NumericTitleFile == JsonFile(JList(<<EntryN>>))

RunBibliographies == {<<MainFile>>, <<MainFile, SecondFile>>, <<MainFile, NumericTitleFile>>}

\* a paragraph, [@b], [@l; see @b], [see @d; @A, p. 23] and [@n; @b]
RunNodes ==
    { Para,
      Cite(<<Citation(1, <<98>>, FALSE, FALSE)>>),
      Cite(<<Citation(1, <<108>>, FALSE, FALSE), Citation(2, <<98>>, TRUE, FALSE)>>),
      Cite(<<Citation(1, <<100>>, TRUE, FALSE), Citation(2, <<65>>, FALSE, TRUE)>>),
      Cite(<<Citation(1, <<110>>, FALSE, FALSE), Citation(2, <<98>>, FALSE, FALSE)>>) }

\* doc.walk(gather_citations) has returned
walk_complete_early(p, d) == p >= 1

walk_complete(p, d) == p = Len(d)

InitRun ==
    /\ pc = "gather"
    /\ files \in RunBibliographies
    /\ cited_ids = {}
    /\ \E n \in 0..MaxNodes : doc \in [1..n -> RunNodes]
    /\ pos = 0
    /\ building = <<>>
    /\ acted = 0
    /\ NoLoad
    /\ NoCite
    /\ NoYear
    /\ NoRest

\* gather_citations(elem, doc) on the next node of the walk
GatherNode ==
    /\ pc = "gather"
    /\ pos < Len(doc)
    /\ cited_ids' = IF doc[pos + 1].cite
                    THEN cited_ids \cup gather_citations(doc[pos + 1].citations)
                    ELSE cited_ids
    /\ pos' = pos + 1
    /\ UNCHANGED <<restVars, pc, files, bibliography, sort_info, error, doc, building, acted,
                   citeVars, yearVars>>

\* bibliography = load_entries(doc, doc._cited_ids); sort_info = {}
LoadBibliography ==
    /\ pc = "gather"
    /\ walk_complete(pos, doc)
    /\ LET loaded == load_entries(files, cited_ids)
       IN  IF loaded.error # "none"
           THEN error' = loaded.error /\ pc' = "raised" /\ UNCHANGED bibliography
           ELSE bibliography' = loaded.entries /\ pc' = "build" /\ UNCHANGED error
    /\ UNCHANGED <<restVars, files, cited_ids, sort_info, docVars, citeVars, yearVars>>

\* one round of the loop over bibliography.items(); the mapping does not
\* record the order of insertion, so every order is explored
BuildKey ==
    /\ pc = "build"
    /\ \E key \in DOMAIN bibliography \ DOMAIN building :
           LET e       == bibliography[key]
               chinese == detect_chinese(e)
           IN  IF title_error(e, chinese) # "none"
               THEN /\ error' = title_error(e, chinese)
                    /\ pc' = "raised"
                    /\ UNCHANGED building
               ELSE /\ building' = Put(building, key,
                                       <<chinese, author_key(e, chinese), extract_year(e),
                                         title_key(e, chinese)>>)
                    /\ UNCHANGED <<pc, error>>
    /\ UNCHANGED <<restVars, files, cited_ids, bibliography, sort_info, doc, pos, acted,
                   citeVars, yearVars>>

\* doc._sort_info = sort_info, the last statement of prepare()
StoreSortInfo ==
    /\ pc = "build"
    /\ DOMAIN building = DOMAIN bibliography
    /\ sort_info' = building
    /\ pc' = "action"
    /\ UNCHANGED <<restVars, files, cited_ids, bibliography, error, docVars, citeVars, yearVars>>

\* action(elem, doc) on the next node of the walk of run_filter
ActNode ==
    /\ pc = "action"
    /\ acted < Len(doc)
    /\ doc' = IF doc[acted + 1].cite
              THEN [doc EXCEPT ![acted + 1].citations =
                       action_result(doc[acted + 1].citations, sort_info).citations]
              ELSE doc
    /\ acted' = acted + 1
    /\ UNCHANGED <<restVars, pc, loadVars, pos, building, citeVars, yearVars>>

NextRun == GatherNode \/ LoadBibliography \/ BuildKey \/ StoreSortInfo \/ ActNode

SpecRun == InitRun /\ [][NextRun]_vars

(***************************************************************************)
(* to_pinyin on its own: a text of up to MaxName characters drawn from     *)
(* NameChars, then to_pinyin is applied.                                   *)
(***************************************************************************)
\* 单, 尉, 迟, 于, 张, 李 and the letter "a"
NameChars == {21333, 23561, 36831, 20110, 24352, 26446, 97}

InitPinyin ==
    /\ pc = "to_pinyin"
    /\ \E n \in 0..MaxName : name \in [1..n -> NameChars]
    /\ romanized = <<>>
    /\ files = <<>>
    /\ cited_ids = {}
    /\ NoLoad
    /\ NoCite
    /\ NoYear
    /\ NoDoc
    /\ NoBib
    /\ NoFoot

ToPinyin ==
    /\ pc = "to_pinyin"
    /\ romanized' = to_pinyin(name)
    /\ pc' = "pinyin_done"
    /\ UNCHANGED <<name, bibVars, footVars, files, cited_ids, bibliography, sort_info, error,
                   citeVars, yearVars, docVars>>

NextPinyin == ToPinyin

SpecPinyin == InitPinyin /\ [][NextPinyin]_vars

(***************************************************************************)
(* _extensions/sort-bib.py: the filter that sorts and numbers the entries  *)
(* of the bibliography.  A block of the document is [kind, content]: a     *)
(* paragraph, a Div with the class references, or another Div, whose       *)
(* content is blocks.  A child of a references Div is [kind, obj, text,    *)
(* label]: a Div with the class csl-entry or another block, its identity,  *)
(* pf.stringify of it, and the number of the label put before its text (0  *)
(* for none).                                                              *)
(***************************************************************************)
bib_contains_chinese(text) == \E i \in 1..Len(text) : IsChineseChar(text[i])

\* the table of special_pinyin, which has the entries of SURNAME_MAP
surname_map == SURNAME_MAP

\* pypinyin.pinyin(text, style=Style.TONE3): as pinyin, but a character
\* without a reading is kept
RECURSIVE pinyin_default(_)
pinyin_default(text) ==
    IF text = <<>> THEN <<>>
    ELSE IF Len(text) >= 2 /\ SubSeq(text, 1, 2) \in DOMAIN PHRASES
         THEN PHRASES[SubSeq(text, 1, 2)] \o pinyin_default(SubSeq(text, 3, Len(text)))
         ELSE <<IF PinyinOf(text[1]) = <<>> THEN <<text[1]>> ELSE PinyinOf(text[1])>>
              \o pinyin_default(Tail(text))

\* text.split(",")[0]
RECURSIVE before_comma(_)
before_comma(text) ==
    IF text = <<>> \/ Head(text) = 44 THEN <<>>
    ELSE <<Head(text)>> \o before_comma(Tail(text))

\* special_pinyin of a text that contains Chinese and does not begin with a
\* comma
special_pinyin(text) ==
    LET nm               == before_comma(text)
        surname          == nm[1]
        full_pinyin_text == Flatten(pinyin_default(nm))
    IN  IF surname \in DOMAIN surname_map
        THEN LET surname_py     == surname_map[surname]
                 surname_py_len == Len(pinyin_default(<<surname>>)[1])
             IN  surname_py \o SubSeq(full_pinyin_text, surname_py_len + 1, Len(full_pinyin_text))
        ELSE full_pinyin_text

\* list.sort(key=...) on items decorated with their key, <<key, item>>, the
\* keys being strings: a stable sort
RECURSIVE insert_by_text(_, _)
insert_by_text(done, item) ==
    IF done = <<>> THEN <<item>>
    ELSE IF StrLess(item[1], Head(done)[1])
         THEN <<item>> \o done
         ELSE <<Head(done)>> \o insert_by_text(Tail(done), item)

RECURSIVE sort_by_text_from(_, _)
sort_by_text_from(done, items) ==
    IF items = <<>> THEN done
    ELSE sort_by_text_from(insert_by_text(done, Head(items)), Tail(items))

sort_by_text(items) ==
    LET s == sort_by_text_from(<<>>, items)
    IN  [i \in 1..Len(s) |-> s[i][2]]

\* str.lower()
lower(text) == [i \in 1..Len(text) |-> Lower(text[i])]

IsCslEntry(e) == e.kind = "csl-entry"

IsChineseEntry(e) == IsCslEntry(e) /\ bib_contains_chinese(e.text)

IsOtherEntry(e) == IsCslEntry(e) /\ ~bib_contains_chinese(e.text)

\* action(elem, doc) during the walk below one top-level block: the result
\* is the block and the two lists of the document
RECURSIVE bib_action(_, _, _)
bib_action(elem, chinese, non_chinese) ==
    IF elem.kind = "references"
    THEN [block       |-> [elem EXCEPT !.content = <<>>],
          chinese     |-> chinese \o SelectSeq(elem.content, IsChineseEntry),
          non_chinese |-> non_chinese \o SelectSeq(elem.content, IsOtherEntry)]
    ELSE IF elem.kind = "div" /\ elem.content # <<>>
    THEN \* the walk reaches the only child before the Div itself
         LET inner == bib_action(elem.content[1], chinese, non_chinese)
         IN  [block       |-> [elem EXCEPT !.content = <<inner.block>>],
              chinese     |-> inner.chinese,
              non_chinese |-> inner.non_chinese]
    ELSE [block |-> elem, chinese |-> chinese, non_chinese |-> non_chinese]

\* the entries numbered from 1: [i] is put before the text of entry i
numbered(entries) == [i \in 1..Len(entries) |-> [entries[i] EXCEPT !.label = i]]

\* the first top-level references Div receives the entries
RECURSIVE replace_first(_, _)
replace_first(blocks, all_entries) ==
    IF blocks = <<>> THEN <<>>
    ELSE IF Head(blocks).kind = "references"
         THEN <<[Head(blocks) EXCEPT !.content = all_entries]>> \o Tail(blocks)
         ELSE <<Head(blocks)>> \o replace_first(Tail(blocks), all_entries)

\* the blocks explored: a paragraph, a references Div and a references Div
\* inside another Div; k is the position of the block in the document
Child(k, i, c) == [kind |-> c[1], obj |-> <<k, i>>, text |-> c[2], label |-> 0]

References(k, cs) ==
    [kind |-> "references", content |-> [i \in 1..Len(cs) |-> Child(k, i, cs[i])]]

Wrapped(k, cs) == [kind |-> "div", content |-> <<References(k, cs)>>]

Paragraph == [kind |-> "para", content |-> <<>>]

\* the contents of a references Div explored: none; "B", "a"; 张, "B", 李;
\* "单, 于", 张, "a"; a heading and 李
Contents ==
    { <<>>,
      << <<"csl-entry", <<66>>>>, <<"csl-entry", <<97>>>> >>,
      << <<"csl-entry", <<24352>>>>, <<"csl-entry", <<66>>>>, <<"csl-entry", <<26446>>>> >>,
      << <<"csl-entry", <<21333, 44, 32, 20110>>>>, <<"csl-entry", <<24352>>>>,
         <<"csl-entry", <<97>>>> >>,
      << <<"para", <<72>>>>, <<"csl-entry", <<26446>>>> >> }

BlocksAt(k) ==
    {Paragraph} \cup {References(k, cs) : cs \in Contents} \cup {Wrapped(k, cs) : cs \in Contents}

InitBib ==
    /\ pc = "bib_prepare"
    /\ \E n \in 0..MaxBlocks :
           \E d \in [1..n -> UNION {BlocksAt(k) : k \in 1..n}] :
               /\ \A k \in 1..n : d[k] \in BlocksAt(k)
               /\ bdoc = d
    /\ bdoc_in = bdoc
    /\ chinese_entries = <<>>
    /\ non_chinese_entries = <<>>
    /\ visited = 0
    /\ name = <<>>
    /\ romanized = <<>>
    /\ files = <<>>
    /\ cited_ids = {}
    /\ NoLoad
    /\ NoCite
    /\ NoYear
    /\ NoDoc
    /\ NoFoot

bib_prepare ==
    /\ pc = "bib_prepare"
    /\ chinese_entries' = <<>>
    /\ non_chinese_entries' = <<>>
    /\ pc' = "bib_action"
    /\ UNCHANGED <<bdoc, bdoc_in, visited, pinyinVars, footVars, loadVars, citeVars, yearVars, docVars>>

\* the walk with action() through the next top-level block
BibWalk ==
    /\ pc = "bib_action"
    /\ visited < Len(bdoc)
    /\ LET r == bib_action(bdoc[visited + 1], chinese_entries, non_chinese_entries)
       IN  /\ bdoc' = [bdoc EXCEPT ![visited + 1] = r.block]
           /\ chinese_entries' = r.chinese
           /\ non_chinese_entries' = r.non_chinese
    /\ visited' = visited + 1
    /\ UNCHANGED <<pc, bdoc_in, pinyinVars, footVars, loadVars, citeVars, yearVars, docVars>>

finalize ==
    /\ pc = "bib_action"
    /\ visited = Len(bdoc)
    /\ LET non_chinese == sort_by_text([i \in 1..Len(non_chinese_entries) |->
                               <<lower(non_chinese_entries[i].text), non_chinese_entries[i]>>])
           chinese     == sort_by_text([i \in 1..Len(chinese_entries) |->
                               <<special_pinyin(chinese_entries[i].text), chinese_entries[i]>>])
           all_entries == numbered(non_chinese \o chinese)
       IN  /\ non_chinese_entries' = SubSeq(all_entries, 1, Len(non_chinese))
           /\ chinese_entries' = SubSeq(all_entries, Len(non_chinese) + 1, Len(all_entries))
           /\ bdoc' = IF all_entries = <<>> THEN bdoc ELSE replace_first(bdoc, all_entries)
    /\ pc' = "bib_done"
    /\ UNCHANGED <<bdoc_in, visited, pinyinVars, footVars, loadVars, citeVars, yearVars, docVars>>

NextBib == bib_prepare \/ BibWalk \/ finalize

SpecBib == InitBib /\ [][NextBib]_vars

(***************************************************************************)
(* _extensions/format-md.py, randomize_numeric_footnotes.  The text is     *)
(* the sequence of its footnote markers, [def, id]: a reference [^id] or a *)
(* definition [^id]: at the start of a line, and the identifier.           *)
(***************************************************************************)
RANDOM_ID_LEN == 5

\* a character of string.ascii_letters + string.digits
IsRandomIdChar(c) == c \in 48..57 \/ c \in 65..90 \/ c \in 97..122

\* a string random.choices(RANDOM_ID_CHARS, k=RANDOM_ID_LEN) can return
IsRandomId(id) ==
    Len(id) = RANDOM_ID_LEN /\ \A i \in 1..Len(id) : IsRandomIdChar(id[i])

\* \d+
IsNumericId(id) == id # <<>> /\ \A i \in 1..Len(id) : IsDigit(id[i])

\* old_ids = ids_in_refs | ids_in_defs; [^n] matches in a definition too
old_ids(markers) == {markers[i].id : i \in {j \in 1..Len(markers) : IsNumericId(markers[j].id)}}

\* the two re.sub calls for one old id
substitute(markers, old_id, new_id) ==
    [i \in 1..Len(markers) |->
        IF markers[i].id = old_id THEN [markers[i] EXCEPT !.id = new_id] ELSE markers[i]]

\* the loop over new_ids.items(), in the order of insertion
RECURSIVE substitute_all(_, _, _)
substitute_all(markers, order, new_ids) ==
    IF order = <<>> THEN markers
    ELSE substitute_all(substitute(markers, Head(order), new_ids[Head(order)]),
                        Tail(order), new_ids)

\* the identifiers of the texts explored: "1", "2", "12345" and "aB3x9"
FootnoteIds == {<<49>>, <<50>>, <<49, 50, 51, 52, 53>>, <<97, 66, 51, 120, 57>>}

\* the random identifiers explored: "12345", "aB3x9", "Zk0Qp" and "q7Wm2"
RandomIds ==
    {id \in {<<49, 50, 51, 52, 53>>, <<97, 66, 51, 120, 57>>, <<90, 107, 48, 81, 112>>,
             <<113, 55, 87, 109, 50>>} : IsRandomId(id)}

InitFoot ==
    /\ pc = "randomize"
    /\ \E n \in 0..MaxMarkers :
           \E ids \in [1..n -> FootnoteIds], defs \in [1..n -> BOOLEAN] :
               markdown = [i \in 1..n |-> [def |-> defs[i], id |-> ids[i]]]
    /\ markdown_in = markdown
    /\ name = <<>>
    /\ romanized = <<>>
    /\ files = <<>>
    /\ cited_ids = {}
    /\ NoLoad
    /\ NoCite
    /\ NoYear
    /\ NoDoc
    /\ NoBib

\* randomize_numeric_footnotes(text): the set old_ids is iterated in some
\* order, each old id gets a random id that no earlier old id got, and the
\* substitutions are made in that order
randomize_numeric_footnotes ==
    /\ pc = "randomize"
    /\ LET olds == old_ids(markdown)
           n    == Cardinality(olds)
       IN  IF olds = {} THEN UNCHANGED markdown
           ELSE \E order \in [1..n -> olds] :
                    /\ \A i, j \in 1..n : i # j => order[i] # order[j]
                    /\ \E new_ids \in [olds -> RandomIds] :
                           /\ \A a, b \in olds : a # b => new_ids[a] # new_ids[b]
                           /\ markdown' = substitute_all(markdown, order, new_ids)
    /\ pc' = "randomized"
    /\ UNCHANGED <<markdown_in, pinyinVars, bibVars, loadVars, citeVars, yearVars, docVars>>

NextFoot == randomize_numeric_footnotes

SpecFoot == InitFoot /\ [][NextFoot]_vars

(***************************************************************************)
(* extract_year on its own: the date fields of a record are drawn from     *)
(* DateValues, then extract_year is applied.                               *)
(***************************************************************************)
DateValues ==
    { JNone,
      \* {"date-parts": [[2018, 5]]}
      JDate(JList(<<JList(<<JInt(2018), JInt(5)>>)>>), JNone),
      \* {"date-parts": [[0]]}
      JDate(JList(<<JList(<<JInt(0)>>)>>), JNone),
      \* {"literal": "2001"}
      JDate(JNone, JStr(<<50, 48, 48, 49>>)),
      \* "circa 1990s"
      JStr(<<99, 105, 114, 99, 97, 32, 49, 57, 57, 48, 115>>),
      \* "n.d."
      JStr(<<110, 46, 100, 46>>),
      \* [[2015]]
      JList(<<JList(<<JInt(2015)>>)>>),
      \* 2018
      JInt(2018) }

YearEntries == {[EntryB EXCEPT !.dates = d] : d \in [Range(DATE_KEYS) -> DateValues]}

InitYear ==
    /\ pc = "extract_year"
    /\ entry \in YearEntries
    /\ year = 0
    /\ files = <<>>
    /\ cited_ids = {}
    /\ NoLoad
    /\ NoCite
    /\ NoDoc
    /\ NoRest

ExtractYear ==
    /\ pc = "extract_year"
    /\ year' = extract_year(entry)
    /\ pc' = "year_done"
    /\ UNCHANGED <<restVars, entry, loadVars, citeVars, docVars>>

NextYear == ExtractYear

SpecYear == InitYear /\ [][NextYear]_vars

(***************************************************************************)
(* Vocabulary of the properties.  After a call of action(), input is the   *)
(* cluster the call received and citations the cluster it left.            *)
(***************************************************************************)
Sorted == runs >= 1 /\ Len(input) >= 2

\* the reference is in the Chinese group: its record was classified Chinese
IsChineseRef(c) == c.id \in DOMAIN sort_info /\ sort_info[c.id][1]

\* a < b for texts, by code points
StrBefore(a, b) ==
    \E k \in 1..Len(b) :
        /\ \A m \in 1..(k - 1) : m <= Len(a) /\ a[m] = b[m]
        /\ (k > Len(a) \/ (k <= Len(a) /\ a[k] < b[k]))

\* (authorKey, year, titleKey) of a reference
KeysOf(c) ==
    IF c.id \in DOMAIN sort_info
    THEN <<sort_info[c.id][2], sort_info[c.id][3], sort_info[c.id][4]>>
    ELSE <<normalize(c.id), Sentinel, normalize(c.id)>>

\* (authorKey, year, titleKey) of a is smaller than that of b
KeysBefore(a, b) ==
    \/ StrBefore(a[1], b[1])
    \/ a[1] = b[1] /\ a[2] < b[2]
    \/ a[1] = b[1] /\ a[2] = b[2] /\ StrBefore(a[3], b[3])

\* the references at i and j of the input are at a and b of the output
Moved(i, j, a, b) ==
    /\ citations[a].obj = input[i].obj
    /\ citations[b].obj = input[j].obj

\* the input reference at i is ahead of the one at j in the output
StaysAhead(i, j) ==
    \A a, b \in 1..Len(citations) : Moved(i, j, a, b) => a < b

(***************************************************************************)
(* Properties of the cluster reorderer.                                    *)
(***************************************************************************)

\* C1: after action() on a cluster of two or more references, every
\* non-Chinese reference (group 0, an id missing from the bibliography
\* included) is ahead of every Chinese reference (group 1).
C1_NonChineseFirst ==
    Sorted =>
        \A i, j \in 1..Len(citations) :
            (~IsChineseRef(citations[i]) /\ IsChineseRef(citations[j])) => i < j

\* a cluster given with a Chinese reference ahead of a non-Chinese one has
\* been processed
C1_Witness ==
    /\ runs = 1
    /\ \E i, j \in 1..Len(input) :
           i < j /\ IsChineseRef(input[i]) /\ ~IsChineseRef(input[j])

C3_NonChineseKeepOrder ==
    runs >= 1 =>
        \A i, j \in 1..Len(input) :
            (i < j /\ ~IsChineseRef(input[i]) /\ ~IsChineseRef(input[j]))
            => StaysAhead(i, j)

\* C4: action() on a cluster of fewer than two references returns None and
\* leaves every reference, prefix and suffix as it was.
C4_ShortClusterUntouched ==
    (runs >= 1 /\ Len(input) < 2) => (citations = input /\ returned = "None")

\* a cluster of one reference that carries a prefix has been processed
C4_Witness ==
    runs = 1 /\ Len(input) = 1 /\ input[1].prefix # <<>> /\ input[1].suffix # <<>>

C6_PrefixSuffixKept ==
    runs >= 1 =>
        \A i \in 1..Len(input) : \E a \in 1..Len(citations) :
            /\ citations[a].obj = input[i].obj
            /\ citations[a].id = input[i].id
            /\ citations[a].prefix = input[i].prefix
            /\ citations[a].suffix = input[i].suffix

\* C7: action() applied to the cluster a previous action() left gives that
\* same cluster.
C7_Idempotent ==
    runs >= 2 => citations = input

\* the second call ran on a cluster whose first call moved the cluster prefix
\* to a reference with a prefix of its own
C7_Witness ==
    /\ runs = 2
    /\ Len(citations) >= 2
    /\ Len(citations[1].prefix) = 2
    /\ citations[1].prefix[1].obj # citations[1].obj

\* C8: references with equal (localeGroup, authorKey, year, titleKey) keep
\* their relative order, and no two references of a cluster have the same
\* composite key.
C8_StableTotal ==
    Sorted =>
        LET K   == [i \in 1..Len(input) |-> KeysOf(input[i])]
            key == [i \in 1..Len(input) |-> sort_key(sort_info, input[i], i - 1)]
        IN  /\ \A i, j \in 1..Len(input) :
                   ( /\ i < j
                     /\ IsChineseRef(input[i]) = IsChineseRef(input[j])
                     /\ K[i] = K[j] )
                   => StaysAhead(i, j)
            /\ \A i, j \in 1..Len(input) : i < j => key[i] # key[j]

\* a cluster that cites the same id twice, once with a page and once
\* without, has been processed
C8_Witness ==
    /\ runs = 1
    /\ \E i, j \in 1..Len(input) :
           /\ i < j
           /\ input[i].id = input[j].id
           /\ input[i].suffix # input[j].suffix
    /\ returned = "elem"

\* the id is in no bibliography file
Unresolved(id) ==
    \A f \in 1..Len(files) :
        \A e \in 1..Len(records_of(files[f].data)) : records_of(files[f].data)[e].id # id

StructuredYear(parts) ==
    IF /\ parts.t = "list" /\ parts.v # <<>>
       /\ parts.v[1].t = "list" /\ parts.v[1].v # <<>>
       /\ parts.v[1].v[1].t = "int"
    THEN parts.v[1].v[1] ELSE JNone

\* the year the first run of four digits of a literal string gives
LiteralYear(s) == IF s.t = "str" THEN search_year(s.v) ELSE JNone

\* the integer year a date field yields: structured date-parts first, else
\* the literal string
FieldYear(v) ==
    CASE v.t = "dict" -> IF StructuredYear(v.dp).t = "int" THEN StructuredYear(v.dp)
                         ELSE LiteralYear(v.lit)
      [] v.t = "list" -> StructuredYear(v)
      [] v.t = "str"  -> LiteralYear(v)
      [] OTHER        -> JNone

Yielding(e) == {k \in 1..Len(DATE_KEYS) : FieldYear(e.dates[DATE_KEYS[k]]).t = "int"}

\* C10: extract_year() returns the year of the first of issued,
\* original-date, event-date, year, date that yields an integer year, and
\* 9999 exactly when none does.
C10_FirstYieldingField ==
    pc = "year_done" =>
        /\ Yielding(entry) # {} =>
               LET k == CHOOSE m \in Yielding(entry) : \A n \in Yielding(entry) : m <= n
               IN  year = FieldYear(entry.dates[DATE_KEYS[k]]).v
        /\ year = 9999 <=> Yielding(entry) = {}

\* the date fields holding a plain integer, and those that give a year in
\* any of the three shapes
PlainInt(e) == {k \in 1..Len(DATE_KEYS) : e.dates[DATE_KEYS[k]].t = "int"}

GivesYear(e) == Yielding(e) \cup PlainInt(e)

\* C11: a date field may be a plain integer: when the first of the five
\* fields that gives a year holds a plain integer (year: 2018),
\* extract_year() returns that integer.
C11_PlainIntegerYear ==
    pc = "year_done" =>
        \A k \in PlainInt(entry) :
            (\A n \in GivesYear(entry) : k <= n) => year = entry.dates[DATE_KEYS[k]].v

(***************************************************************************)
(* Properties of load_entries.                                             *)
(***************************************************************************)
\* C12: the mapping load_entries() returns holds only records whose id is
\* in the cited-id set, for every cited-id set, the empty set included.
C12_OnlyCitedIds ==
    pc = "loaded" /\ error = "none" => DOMAIN bibliography \subseteq cited_ids

\* the paths load_entries reads and parses
LoadsOK(f) == f.named /\ f.exists /\ f.json_ext /\ f.parses

\* the records a JSON value holds: the record itself, or the records among
\* the elements of a list
RecordsIn(data) ==
    CASE data.t = "dict" -> <<data.v>>
      [] data.t = "list" -> SelectSeq(data.v, LAMBDA x : "id" \in DOMAIN x)
      [] OTHER           -> <<>>

\* the paths that are files holding a list of records or one record
WellFormed(f) ==
    LoadsOK(f) /\ (f.data.t = "dict" \/ (f.data.t = "list" /\ RecordsIn(f.data) = f.data.v))

\* C13: load_entries() never raises because of a bibliography file: a path
\* that is missing, unreadable, not JSON, or JSON that is not a list of
\* records contributes nothing, and the other files are loaded.
C13_NeverRaises ==
    pc = "loaded" =>
        /\ error = "none"
        /\ \A id \in DOMAIN bibliography :
               \E k \in 1..Len(files) :
                   /\ WellFormed(files[k])
                   /\ \E i \in 1..Len(RecordsIn(files[k].data)) :
                          RecordsIn(files[k].data)[i] = bibliography[id]
        /\ \A k \in 1..Len(files) :
               WellFormed(files[k]) =>
                   \A i \in 1..Len(RecordsIn(files[k].data)) :
                       LET id == RecordsIn(files[k].data)[i].id
                       IN  id \in cited_ids => id \in DOMAIN bibliography

\* the positions in the list of the files that load and define id
Defining(id) ==
    {k \in 1..Len(files) :
        /\ LoadsOK(files[k])
        /\ \E i \in 1..Len(RecordsIn(files[k].data)) : RecordsIn(files[k].data)[i].id = id}

\* the last record of file f with this id
LastRecord(f, id) ==
    LET rs == RecordsIn(f.data)
        i  == CHOOSE m \in 1..Len(rs) :
                  rs[m].id = id /\ \A n \in 1..Len(rs) : rs[n].id = id => n <= m
    IN  rs[i]

\* C17: when a cited id is defined in more than one bibliography file,
\* the mapping load_entries() returns holds the record of the file listed
\* last among the files that load, however many earlier files define it.
C17_LastFileWins ==
    pc = "loaded" /\ error = "none" =>
        \A id \in cited_ids :
            Cardinality(Defining(id)) >= 2 =>
                LET last == CHOOSE k \in Defining(id) : \A n \in Defining(id) : n <= k
                IN  /\ id \in DOMAIN bibliography
                    /\ bibliography[id] = LastRecord(files[last], id)

\* refs.json, then extra.json, then a file that does not load, with "b"
\* cited: the record kept is the one of extra.json
C17_Witness ==
    /\ pc = "loaded" /\ error = "none"
    /\ Len(files) = 3 /\ ~LoadsOK(files[3])
    /\ \E id \in cited_ids :
           /\ Defining(id) = {1, 2}
           /\ LastRecord(files[1], id) # bibliography[id]
           /\ bibliography[id] = EntryB2

(***************************************************************************)
(* Properties of the run over a document.                                  *)
(***************************************************************************)
\* the ids of all citations of a document
AllCited(d) ==
    UNION {{d[k].citations[i].id : i \in 1..Len(d[k].citations)} : k \in 1..Len(d)}

\* C14: the gather walk has visited every citation node before
\* load_entries() starts, and the sort information of every loaded entry
\* is built before action() reorders the first cluster.
C14_GatherLoadBuildAct ==
    /\ pc # "gather" => pos = Len(doc) /\ cited_ids = AllCited(doc)
    /\ pc = "action" =>
           /\ DOMAIN sort_info = DOMAIN bibliography
           /\ \A key \in DOMAIN sort_info : Len(sort_info[key]) = 4
    /\ acted >= 1 => pc = "action"

\* two clusters gathered, two records loaded and keyed, the first cluster
\* reordered
C14_Witness ==
    /\ pc = "action" /\ acted >= 1
    /\ Len(doc) >= 2 /\ doc[1].cite /\ doc[2].cite
    /\ Cardinality(DOMAIN sort_info) >= 3
    /\ doc[1].citations[1].obj = 2

\* C16: an error while the sort key of one entry is computed (a title
\* that is not a string) does not abort the pass: prepare() completes,
\* every loaded entry gets sort information and action() reaches every
\* cluster.
C16_KeyErrorDegrades ==
    /\ error = "none"
    /\ pc = "action" => DOMAIN sort_info = DOMAIN bibliography

(***************************************************************************)
(* Properties of to_pinyin.                                                *)
(***************************************************************************)
\* a is the beginning of b
IsPrefix(a, b) == Len(a) <= Len(b) /\ SubSeq(b, 1, Len(a)) = a

\* C15: for a Chinese name whose first character is in SURNAME_MAP,
\* to_pinyin() returns the override syllable followed by the readings of
\* the remaining characters as the plain transliteration of the whole name
\* gives them, and the result never begins with the default reading of the
\* first character.
C15_SurnameOverride ==
    pc = "pinyin_done" /\ name # <<>> /\ name[1] \in DOMAIN SURNAME_MAP =>
        /\ romanized = SURNAME_MAP[name[1]] \o Flatten(Tail(pinyin(name)))
        /\ ~IsPrefix(PinyinOf(name[1]), romanized)

(***************************************************************************)
(* Properties of action(), continued.                                      *)
(***************************************************************************)
\* C20: action() only permutes a cluster: the cluster it leaves has the
\* length of the cluster it received and holds each Citation object of it
\* exactly once, with its id and its suffix unchanged; this includes the
\* references with no bibliography entry.
C20_OnlyPermutes ==
    runs >= 1 =>
        /\ Len(citations) = Len(input)
        /\ \A i \in 1..Len(input) :
               LET at == {a \in 1..Len(citations) : citations[a].obj = input[i].obj}
               IN  /\ Cardinality(at) = 1
                   /\ \A a \in at : /\ citations[a].id = input[i].id
                                     /\ citations[a].suffix = input[i].suffix

\* a cluster whose second reference has no entry and carries a suffix, and
\* which action() has moved to the front
C20_Witness ==
    /\ runs = 1 /\ Len(input) = 2
    /\ input[2].id \notin DOMAIN sort_info /\ input[2].suffix # <<>>
    /\ citations[1].obj = input[2].obj
    /\ citations[2].obj = input[1].obj

(***************************************************************************)
(* Properties of sort-bib.                                                 *)
(***************************************************************************)
\* the references Divs of a list of blocks, at the top level or inside
\* another Div
RefsDivs(blocks) ==
    {blocks[k] : k \in {j \in 1..Len(blocks) : blocks[j].kind = "references"}}
    \cup {blocks[k].content[1] :
              k \in {j \in 1..Len(blocks) : blocks[j].kind = "div"}}

\* the csl-entry children of the references Divs of a list of blocks
EntriesOf(blocks) ==
    UNION {{r.content[i] : i \in {j \in 1..Len(r.content) : r.content[j].kind = "csl-entry"}} :
              r \in RefsDivs(blocks)}

\* the content of a references Div is all entries of the bibliography,
\* those without Chinese first in ascending order of their lowercased
\* text, then those with Chinese in ascending order of special_pinyin
SortedBibliography(content) ==
    /\ {content[i].obj : i \in 1..Len(content)} = {e.obj : e \in EntriesOf(bdoc_in)}
    /\ Len(content) = Cardinality(EntriesOf(bdoc_in))
    /\ \A i, j \in 1..Len(content) :
           i < j =>
               LET a  == content[i].text
                   b  == content[j].text
                   ca == \E n \in 1..Len(a) : IsChineseChar(a[n])
                   cb == \E n \in 1..Len(b) : IsChineseChar(b[n])
               IN  /\ ~(ca /\ ~cb)
                   /\ ~ca /\ ~cb => ~StrLess(lower(b), lower(a))
                   /\ ca /\ cb => ~StrLess(special_pinyin(b), special_pinyin(a))

\* C18: after finalize(), the content of the references Div is all entries
\* without Chinese characters in ascending order of their lowercased text,
\* followed by all entries with Chinese characters in ascending order of
\* their special_pinyin key.
C18_NonChineseThenPinyin ==
    pc = "bib_done" /\ EntriesOf(bdoc_in) # {} =>
        \E r \in RefsDivs(bdoc) : SortedBibliography(r.content)

(***************************************************************************)
(* Properties of randomize_numeric_footnotes.                              *)
(***************************************************************************)
\* a run of decimal digits
AllDigits(id) == id # <<>> /\ \A i \in 1..Len(id) : id[i] \in 48..57

\* C19: randomize_numeric_footnotes() avoids collisions: two footnote
\* markers carry the same identifier after the call if and only if they
\* carried the same numeric identifier before, whatever random identifiers
\* are drawn.
C19_NoCollision ==
    pc = "randomized" =>
        \A i, j \in 1..Len(markdown_in) :
            AllDigits(markdown_in[i].id) =>
                (markdown[i].id = markdown[j].id <=> markdown_in[i].id = markdown_in[j].id)

\* the children of the references Divs of a list of blocks, csl-entry or
\* not
ChildrenOf(blocks) ==
    UNION {{r.content[i] : i \in 1..Len(r.content)} : r \in RefsDivs(blocks)}

\* the number of places of a list of blocks where the child with this
\* identity stands
Occurrences(blocks, obj) ==
    LET top    == UNION {{<<k, i>> : i \in {j \in 1..Len(blocks[k].content) :
                                              blocks[k].content[j].obj = obj}} :
                            k \in {j \in 1..Len(blocks) : blocks[j].kind = "references"}}
        nested == UNION {{<<k, i>> : i \in {j \in 1..Len(blocks[k].content[1].content) :
                                              blocks[k].content[1].content[j].obj = obj}} :
                            k \in {j \in 1..Len(blocks) : blocks[j].kind = "div"}}
    IN  Cardinality(top) + Cardinality(nested)

\* C21: sort-bib loses no bibliography content: every child of every
\* references Div that action() empties is in the document exactly once
\* after finalize(), also when the references Div is not a top-level
\* block, when there are several references Divs and when a references Div
\* has children that are not csl-entry Divs.
C21_NoContentLost ==
    pc = "bib_done" =>
        \A c \in ChildrenOf(bdoc_in) : Occurrences(bdoc, c.obj) = 1

====
